---- MODULE Spec2Model ----
(***************************************************************************)
(* State-machine model of record_dataset (src/record_dataset.py): opening  *)
(* the cameras, the per-episode tick loop (multi-camera read, deferred     *)
(* video-writer creation, frame writes, row buffer, stop conditions), the  *)
(* episode finalization (writer release, parquet table, jsonl logs) and    *)
(* the try/finally camera release.                                         *)
(*                                                                         *)
(* Cameras are numbered 1..cam_specs in the insertion order of the         *)
(* cam_specs dict, which is the iteration order of every loop over         *)
(* cam_specs / cam_readers / vw_writers.  One step of the model is one     *)
(* library call or one control-flow decision of the code; pc is the        *)
(* position in record_dataset and ci the position of the current           *)
(* for-loop over the cameras.                                              *)
(*                                                                         *)
(* Library calls are modelled by their possible outcomes:                  *)
(*   cap.read()           returns ok, returns not-ok, or raises            *)
(*   cv2.VideoWriter(..)  returns an opened writer, returns a writer that  *)
(*                        is not opened (isOpened() false; the code never  *)
(*                        looks), or raises                                *)
(*   vw.write(frame)      returns or raises                                *)
(*   pq.write_table       returns or raises                                *)
(*   _append_jsonl        returns or raises                                *)
(* duration is a float; it is modelled as the rational                     *)
(* args.duration_n / DurDen, so that ceil(duration * fps) is computed.     *)
(*                                                                         *)
(* time.time() is the integer clock now, counted in 1/ClockHz seconds.     *)
(* time.sleep(dt) moves the clock to the end of the sleep.  The passing of *)
(* time while the program computes is the step Advance, which is part of   *)
(* TimedSpec only; Restart, a further invocation of record_dataset on the  *)
(* same output directory, is part of RerunSpec only.                       *)
(***************************************************************************)
EXTENDS Integers, Sequences, FiniteSets, TLC

\* ---------------------------------------------------------------- bounds
MaxCams == 2
MaxEpisodes == 2
MaxFps == 2
MaxDurN == 2
MaxNegDurN == 2
MaxMinFrames == 2
MaxNegMinFrames == 1

\* duration is counted in units of 1/DurDen seconds
DurDen == 2

\* the clock counts units of 1/ClockHz seconds
ClockHz == 2

\* Advance stops at this clock value
MaxTime == 3

\* number of invocations of record_dataset on one output directory
MaxRuns == 2

\* ------------------------------------------------------------- variables
VARIABLES
    args,                 \* parsed arguments: episodes, duration_n, min_frames, fps
    cam_specs,            \* number of configured cameras (dict cam_specs)
    pc,                   \* position in record_dataset
    ci,                   \* index of the current for-loop over cameras
    cap,                  \* cap[c]: state of reader c's cv2.VideoCapture
    cam_readers,          \* number of readers registered in dict cam_readers
    ep,                   \* loop variable of "for ep in range(args.episodes)"
    rows,                 \* row buffer of the current episode
    vw_writers,           \* vw_writers[c]: "None" or "VideoWriter"
    sink,                 \* sink[e][c]: the cv2.VideoWriter of episode e, camera c
    frames,               \* len(frames) of the current tick
    success,              \* flag of the current tick
    frame_count,
    parquet,              \* episode index -> rows of the written table file
    episodes_jsonl,       \* lines of meta/episodes.jsonl
    episodes_stats_jsonl, \* lines of meta/episodes_stats.jsonl
    error,                \* "none", or the exception that is propagating
    tick_reads,           \* history: cameras read() in the current tick, in call order
    tick0,                \* history: counters at the start of the current tick
    all_ok,               \* history: no read() of this episode has returned not-ok
    tasks_jsonl,          \* lines of meta/tasks.jsonl
    info_json,            \* content of meta/info.json (<<>>: no file)
    run,                  \* history: number of this invocation
    completed,            \* history: every earlier invocation returned normally
    now,                  \* time.time()
    start_t,              \* start_t of the current episode
    loop_start,           \* loop_start of the current tick (-1: no tick yet)
    prev_start            \* history: loop_start of the tick before (-1: none)

vars == <<args, cam_specs, pc, ci, cap, cam_readers, ep, rows, vw_writers, sink,
          frames, success, frame_count, parquet, episodes_jsonl,
          episodes_stats_jsonl, error, tick_reads, tick0, all_ok,
          tasks_jsonl, info_json, run, completed, now, start_t, loop_start,
          prev_start>>

\* what only the start of an invocation changes
invocation == <<tasks_jsonl, info_json, run, completed>>

\* the local time stamps of the tick loop
stamps == <<start_t, loop_start, prev_start>>

\* ---------------------------------------------------------------- helpers
Cams == 1..cam_specs

AllCams == 1..MaxCams

EpisodeIds == 0..(MaxEpisodes - 1)

Min(a, b) == IF a <= b THEN a ELSE b

\* math.ceil(n / d) for d > 0 (\div rounds towards minus infinity)
Ceil(n, d) == -((-n) \div d)

\* max_frames = math.ceil(args.duration * args.fps)
max_frames == Ceil(args.duration_n * args.fps, DurDen)

\* a cv2.VideoWriter that has not been constructed.  A writer is
\* [st: "absent" | "open" | "released", ok: isOpened() after construction,
\*  n: number of frames passed to its write()]
NoSink == [st |-> "absent", ok |-> FALSE, n |-> 0]

\* number of iterations of "for cam_name, frame in zip(cam_specs.keys(), frames)"
ZipLen == Min(cam_specs, frames)

\* number of write() calls made on each writer of the current episode
Writes == [c \in AllCams |-> IF ep \in EpisodeIds THEN sink[ep][c].n ELSE 0]

\* --task: the parser's default and another description
DefaultTask == "Custom task"

Tasks == {DefaultTask, "pick the cube"}

\* the argument values the parser accepts, within the bounds (default task)
Args == [episodes : 0..MaxEpisodes,
         duration_n : (-MaxNegDurN)..MaxDurN,
         min_frames : (-MaxNegMinFrames)..MaxMinFrames,
         fps : 1..MaxFps,
         task : {DefaultTask}]

\* arguments of the invocations explored with re-runs (with one camera):
\* any task and number of episodes, episodes of zero seconds or of one
\* second at 1 fps that stop after one frame
RerunArgs == [episodes : 0..MaxEpisodes,
              duration_n : {0, DurDen},
              min_frames : {1},
              fps : {1},
              task : Tasks]

\* arguments of the invocations explored with a running clock: one episode
TimedArgs == {a \in Args : a.episodes = 1 /\ a.duration_n >= 0 /\ a.min_frames >= 0}

\* _append_jsonl with the file opened in mode "w": the log is truncated
append_jsonl_truncating(file, data) == <<data>>

\* _append_jsonl(path, data): open in mode "a", write one line
append_jsonl(file, data) == Append(file, data)

\* ------------------------------------------------------------------- init
InitWith(A, C) ==
    /\ args \in A
    /\ cam_specs \in C
    /\ pc = "setup"
    /\ ci = 1
    /\ cap = [c \in AllCams |-> "None"]
    /\ cam_readers = 0
    /\ ep = 0
    /\ rows = <<>>
    /\ vw_writers = [c \in AllCams |-> "None"]
    /\ sink = [e \in EpisodeIds |-> [c \in AllCams |-> NoSink]]
    /\ frames = 0
    /\ success = TRUE
    /\ frame_count = 0
    /\ parquet = <<>>
    /\ episodes_jsonl = <<>>
    /\ episodes_stats_jsonl = <<>>
    /\ error = "none"
    /\ tick_reads = <<>>
    /\ tick0 = [rows |-> 0, frame_count |-> 0, writes |-> [c \in AllCams |-> 0]]
    /\ all_ok = TRUE
    /\ tasks_jsonl = <<>>
    /\ info_json = <<>>
    /\ run = 1
    /\ completed = TRUE
    /\ now = 0
    /\ start_t = 0
    /\ loop_start = -1
    /\ prev_start = -1

\* a first invocation on an empty output directory
Init == InitWith(Args, 1..MaxCams)

InitRerun == InitWith(RerunArgs, {1})

InitTimed == InitWith(TimedArgs, {1})

\* Raise with the try/finally missing: the exception leaves record_dataset
\* without running the camera release loop
RaiseNoFinally(kind) ==
    /\ pc' = "failed"
    /\ ci' = 1
    /\ error' = kind

\* An exception raised inside the try block: control goes to the finally
\* block, which releases the cameras, and then leaves record_dataset.
Raise(kind) ==
    /\ pc' = "finally"
    /\ ci' = 1
    /\ error' = kind

\* ------------------------------------------------------------- set-up
\* directories, info.json (rewritten by every invocation) and tasks.jsonl
\* (one line, written only when the file does not exist)
Setup ==
    /\ pc = "setup"
    /\ info_json' = <<[fps |-> args.fps, video |-> TRUE]>>
    /\ tasks_jsonl' = IF tasks_jsonl = <<>>
                         THEN append_jsonl(tasks_jsonl,
                                           [task_index |-> 0, task |-> args.task])
                         ELSE tasks_jsonl
    /\ pc' = "open"
    /\ UNCHANGED <<run, completed, now, stamps>>
    /\ UNCHANGED <<args, cam_specs, ci, cap, cam_readers, ep, rows, vw_writers, sink,
                   frames, success, frame_count, parquet, episodes_jsonl,
                   episodes_stats_jsonl, error, tick_reads, tick0, all_ok>>

\* record_dataset is invoked again on the same output directory, in a new
\* process: the files stay, everything else starts afresh
Restart ==
    /\ pc \in {"done", "failed", "aborted"}
    /\ run < MaxRuns
    /\ run' = run + 1
    /\ completed' = (completed /\ pc = "done")
    /\ args' \in RerunArgs
    /\ cam_specs' = cam_specs
    /\ pc' = "setup"
    /\ ci' = 1
    /\ cap' = [c \in AllCams |-> "None"]
    /\ cam_readers' = 0
    /\ ep' = 0
    /\ rows' = <<>>
    /\ vw_writers' = [c \in AllCams |-> "None"]
    /\ sink' = [e \in EpisodeIds |-> [c \in AllCams |-> NoSink]]
    /\ frames' = 0
    /\ success' = TRUE
    /\ frame_count' = 0
    /\ error' = "none"
    /\ tick_reads' = <<>>
    /\ tick0' = [rows |-> 0, frame_count |-> 0, writes |-> [c \in AllCams |-> 0]]
    /\ all_ok' = TRUE
    /\ start_t' = now
    /\ loop_start' = -1
    /\ prev_start' = -1
    /\ UNCHANGED <<tasks_jsonl, info_json, parquet, episodes_jsonl,
                   episodes_stats_jsonl, now>>

\* time passes while the program is between two steps
Advance ==
    /\ pc \notin {"done", "failed", "aborted"}
    /\ now < MaxTime
    /\ now' = now + 1
    /\ UNCHANGED <<invocation, stamps>>
    /\ UNCHANGED <<args, cam_specs, pc, ci, cap, cam_readers, ep, rows, vw_writers,
                   sink, frames, success, frame_count, parquet, episodes_jsonl,
                   episodes_stats_jsonl, error, tick_reads, tick0, all_ok>>

\* ---------------------------------------------------------- open cameras
\* reader.open() succeeds; the reader is registered in cam_readers
OpenOk ==
    /\ pc = "open"
    /\ cap' = [cap EXCEPT ![ci] = "opened"]
    /\ cam_readers' = cam_readers + 1
    /\ IF ci = cam_specs
          THEN pc' = "for_ep" /\ ci' = 1
          ELSE pc' = "open" /\ ci' = ci + 1
    /\ UNCHANGED <<invocation, now, stamps>>
    /\ UNCHANGED <<args, cam_specs, ep, rows, vw_writers, sink, frames, success,
                   frame_count, parquet, episodes_jsonl, episodes_stats_jsonl,
                   error, tick_reads, tick0, all_ok>>

\* reader.open() raises RuntimeError: the loop is outside the try block,
\* so the exception leaves record_dataset directly
OpenFail ==
    /\ pc = "open"
    /\ cap' = [cap EXCEPT ![ci] = "unopened"]
    /\ pc' = "aborted"
    /\ error' = "CameraOpenError"
    /\ UNCHANGED <<invocation, now, stamps>>
    /\ UNCHANGED <<args, cam_specs, ci, cam_readers, ep, rows, vw_writers, sink,
                   frames, success, frame_count, parquet, episodes_jsonl,
                   episodes_stats_jsonl, tick_reads, tick0, all_ok>>

\* ------------------------------------------------------------- episodes
\* next iteration of "for ep in range(args.episodes)": reset the episode state
StartEpisode ==
    /\ pc = "for_ep"
    /\ ep < args.episodes
    /\ rows' = <<>>
    /\ vw_writers' = [c \in AllCams |-> "None"]
    /\ frame_count' = 0
    /\ all_ok' = TRUE
    /\ pc' = "while"
    /\ start_t' = now
    /\ loop_start' = -1
    /\ prev_start' = -1
    /\ UNCHANGED <<invocation, now>>
    /\ UNCHANGED <<args, cam_specs, ci, cap, cam_readers, ep, sink, frames, success,
                   parquet, episodes_jsonl, episodes_stats_jsonl, error,
                   tick_reads, tick0>>

\* range(args.episodes) is exhausted: leave the try block normally
EpisodesDone ==
    /\ pc = "for_ep"
    /\ ep >= args.episodes
    /\ pc' = "finally"
    /\ ci' = 1
    /\ UNCHANGED <<invocation, now, stamps>>
    /\ UNCHANGED <<args, cam_specs, cap, cam_readers, ep, rows, vw_writers, sink,
                   frames, success, frame_count, parquet, episodes_jsonl,
                   episodes_stats_jsonl, error, tick_reads, tick0, all_ok>>

\* ------------------------------------------------------------ tick loop
\* TickStart with "while frame_count <= max_frames" as the loop test
TickStartInclusive ==
    /\ pc = "while"
    /\ frame_count <= max_frames
    /\ frames' = 0
    /\ success' = TRUE
    /\ ci' = 1
    /\ pc' = "read"
    /\ tick_reads' = <<>>
    /\ tick0' = [rows |-> Len(rows), frame_count |-> frame_count, writes |-> Writes]
    /\ loop_start' = now
    /\ prev_start' = loop_start
    /\ UNCHANGED <<invocation, now, start_t>>
    /\ UNCHANGED <<args, cam_specs, cap, cam_readers, ep, rows, vw_writers, sink,
                   frame_count, parquet, episodes_jsonl, episodes_stats_jsonl,
                   error, all_ok>>

\* "while frame_count < max_frames" holds: a tick starts
TickStart ==
    /\ pc = "while"
    /\ frame_count < max_frames
    /\ frames' = 0
    /\ success' = TRUE
    /\ ci' = 1
    /\ pc' = "read"
    /\ tick_reads' = <<>>
    /\ tick0' = [rows |-> Len(rows), frame_count |-> frame_count, writes |-> Writes]
    /\ loop_start' = now
    /\ prev_start' = loop_start
    /\ UNCHANGED <<invocation, now, start_t>>
    /\ UNCHANGED <<args, cam_specs, cap, cam_readers, ep, rows, vw_writers, sink,
                   frame_count, parquet, episodes_jsonl, episodes_stats_jsonl,
                   error, all_ok>>

\* LoopExit with the writer release loop missing: the table is written next
LoopExitNoRelease ==
    /\ pc = "while"
    /\ ~(frame_count < max_frames)
    /\ pc' = "write_table"
    /\ ci' = 1
    /\ UNCHANGED <<invocation, now, stamps>>
    /\ UNCHANGED <<args, cam_specs, cap, cam_readers, ep, rows, vw_writers, sink,
                   frames, success, frame_count, parquet, episodes_jsonl,
                   episodes_stats_jsonl, error, tick_reads, tick0, all_ok>>

\* "while frame_count < max_frames" fails: the loop ends
LoopExit ==
    /\ pc = "while"
    /\ ~(frame_count < max_frames)
    /\ pc' = "release_vw"
    /\ ci' = 1
    /\ UNCHANGED <<invocation, now, stamps>>
    /\ UNCHANGED <<args, cam_specs, cap, cam_readers, ep, rows, vw_writers, sink,
                   frames, success, frame_count, parquet, episodes_jsonl,
                   episodes_stats_jsonl, error, tick_reads, tick0, all_ok>>

\* reader.read() returns (True, frame): the frame is collected
ReadOk ==
    /\ pc = "read"
    /\ tick_reads' = Append(tick_reads, ci)
    /\ frames' = frames + 1
    /\ IF ci = cam_readers
          THEN pc' = "if_success" /\ ci' = 1
          ELSE pc' = "read" /\ ci' = ci + 1
    /\ UNCHANGED <<invocation, now, stamps>>
    /\ UNCHANGED <<args, cam_specs, cap, cam_readers, ep, rows, vw_writers, sink,
                   success, frame_count, parquet, episodes_jsonl,
                   episodes_stats_jsonl, error, tick0, all_ok>>

\* reader.read() returns (False, _): success = False and break
ReadFail ==
    /\ pc = "read"
    /\ tick_reads' = Append(tick_reads, ci)
    /\ success' = FALSE
    /\ all_ok' = FALSE
    /\ pc' = "if_success"
    /\ ci' = 1
    /\ UNCHANGED <<invocation, now, stamps>>
    /\ UNCHANGED <<args, cam_specs, cap, cam_readers, ep, rows, vw_writers, sink,
                   frames, frame_count, parquet, episodes_jsonl,
                   episodes_stats_jsonl, error, tick0>>

\* reader.read() raises
ReadRaise ==
    /\ pc = "read"
    /\ tick_reads' = Append(tick_reads, ci)
    /\ Raise("ReadError")
    /\ UNCHANGED <<invocation, now, stamps>>
    /\ UNCHANGED <<args, cam_specs, cap, cam_readers, ep, rows, vw_writers, sink,
                   frames, success, frame_count, parquet, episodes_jsonl,
                   episodes_stats_jsonl, tick0, all_ok>>

\* Continue with the "continue" missing: a tick with a failed read goes on
\* to the writer creation and the frame writes
ContinueDropped ==
    /\ pc = "if_success"
    /\ ~success
    /\ ci' = 1
    /\ pc' = IF ZipLen = 0 THEN "record"
             ELSE IF \E c \in Cams : vw_writers[c] = "None" THEN "init_vw"
             ELSE "write"
    /\ UNCHANGED <<invocation, now, stamps>>
    /\ UNCHANGED <<args, cam_specs, cap, cam_readers, ep, rows, vw_writers, sink,
                   frames, success, frame_count, parquet, episodes_jsonl,
                   episodes_stats_jsonl, error, tick_reads, tick0, all_ok>>

\* "if not success: continue"
Continue ==
    /\ pc = "if_success"
    /\ ~success
    /\ pc' = "while"
    /\ UNCHANGED <<invocation, now, stamps>>
    /\ UNCHANGED <<args, cam_specs, ci, cap, cam_readers, ep, rows, vw_writers, sink,
                   frames, success, frame_count, parquet, episodes_jsonl,
                   episodes_stats_jsonl, error, tick_reads, tick0, all_ok>>

\* Proceed without the "any(vw is None ...)" test: the writers are created
\* in every complete tick
ProceedAlwaysInit ==
    /\ pc = "if_success"
    /\ success
    /\ ci' = 1
    /\ pc' = IF ZipLen = 0 THEN "record" ELSE "init_vw"
    /\ UNCHANGED <<invocation, now, stamps>>
    /\ UNCHANGED <<args, cam_specs, cap, cam_readers, ep, rows, vw_writers, sink,
                   frames, success, frame_count, parquet, episodes_jsonl,
                   episodes_stats_jsonl, error, tick_reads, tick0, all_ok>>

\* the tick is complete: "if any(vw is None for vw in vw_writers.values())"
\* decides whether the writers are created before the frames are written
Proceed ==
    /\ pc = "if_success"
    /\ success
    /\ ci' = 1
    /\ pc' = IF ZipLen = 0 THEN "record"
             ELSE IF \E c \in Cams : vw_writers[c] = "None" THEN "init_vw"
             ELSE "write"
    /\ UNCHANGED <<invocation, now, stamps>>
    /\ UNCHANGED <<args, cam_specs, cap, cam_readers, ep, rows, vw_writers, sink,
                   frames, success, frame_count, parquet, episodes_jsonl,
                   episodes_stats_jsonl, error, tick_reads, tick0, all_ok>>

\* _init_video_writer(...) returns a writer; created(ok) is the rest of the
\* loop step: the writer is stored in vw_writers[cam_name]
Created(ok) ==
    /\ pc = "init_vw"
    /\ vw_writers' = [vw_writers EXCEPT ![ci] = "VideoWriter"]
    /\ sink' = [sink EXCEPT ![ep][ci] = [st |-> "open", ok |-> ok, n |-> 0]]
    /\ IF ci = ZipLen
          THEN pc' = "write" /\ ci' = 1
          ELSE pc' = "init_vw" /\ ci' = ci + 1
    /\ UNCHANGED <<invocation, now, stamps>>
    /\ UNCHANGED <<args, cam_specs, cap, cam_readers, ep, rows, frames, success,
                   frame_count, parquet, episodes_jsonl, episodes_stats_jsonl,
                   error, tick_reads, tick0, all_ok>>

\* cv2.VideoWriter(path, fourcc, fps, size) opened the file
InitWriterOpened == Created(TRUE)

\* cv2.VideoWriter(...) could not open the file or the encoder: it returns a
\* writer whose isOpened() is false; _init_video_writer returns it unchecked
InitWriterUnopened == Created(FALSE)

\* cv2.VideoWriter(...) raises
InitWriterRaise ==
    /\ pc = "init_vw"
    /\ Raise("SinkCreateError")
    /\ UNCHANGED <<invocation, now, stamps>>
    /\ UNCHANGED <<args, cam_specs, cap, cam_readers, ep, rows, vw_writers, sink,
                   frames, success, frame_count, parquet, episodes_jsonl,
                   episodes_stats_jsonl, tick_reads, tick0, all_ok>>

\* vw_writers[cam_name].write(frame) returns
WriteOk ==
    /\ pc = "write"
    /\ vw_writers[ci] # "None"
    /\ sink' = [sink EXCEPT ![ep][ci].n = @ + 1]
    /\ IF ci = ZipLen
          THEN pc' = "record" /\ ci' = 1
          ELSE pc' = "write" /\ ci' = ci + 1
    /\ UNCHANGED <<invocation, now, stamps>>
    /\ UNCHANGED <<args, cam_specs, cap, cam_readers, ep, rows, vw_writers, frames,
                   success, frame_count, parquet, episodes_jsonl,
                   episodes_stats_jsonl, error, tick_reads, tick0, all_ok>>

\* vw_writers[cam_name].write(frame) raises (also: the entry is None)
WriteRaise ==
    /\ pc = "write"
    /\ Raise("SinkWriteError")
    /\ UNCHANGED <<invocation, now, stamps>>
    /\ UNCHANGED <<args, cam_specs, cap, cam_readers, ep, rows, vw_writers, sink,
                   frames, success, frame_count, parquet, episodes_jsonl,
                   episodes_stats_jsonl, tick_reads, tick0, all_ok>>

\* the clock after "dt = 1 / args.fps - (time.time() - loop_start); if dt > 0:
\* time.sleep(dt)": the sleep lasts at least dt
SleepUntil ==
    IF ClockHz > (now - loop_start) * args.fps
       THEN loop_start + Ceil(ClockHz, args.fps)
       ELSE now

\* RecordRow with the min_frames test placed before rows.append: the frame
\* that ends the episode gets no row
RecordRowAfterBreak ==
    /\ pc = "record"
    /\ frame_count' = frame_count + 1
    /\ IF frame_count' >= args.min_frames
          THEN pc' = "release_vw" /\ rows' = rows /\ now' = now
          ELSE /\ pc' = "while"
               /\ rows' = Append(rows, [timestamp |-> now - start_t,
                                        frame |-> frame_count])
               /\ now' = SleepUntil
    /\ ci' = 1
    /\ UNCHANGED <<invocation, stamps>>
    /\ UNCHANGED <<args, cam_specs, cap, cam_readers, ep, vw_writers, sink, frames,
                   success, parquet, episodes_jsonl, episodes_stats_jsonl, error,
                   tick_reads, tick0, all_ok>>

\* RecordRow with "frame_count > args.min_frames" as the stop test
RecordRowStrict ==
    /\ pc = "record"
    /\ rows' = Append(rows, [timestamp |-> now - start_t, frame |-> frame_count])
    /\ frame_count' = frame_count + 1
    /\ IF frame_count' > args.min_frames
          THEN pc' = "release_vw" /\ now' = now
          ELSE pc' = "while" /\ now' = SleepUntil
    /\ ci' = 1
    /\ UNCHANGED <<invocation, stamps>>
    /\ UNCHANGED <<args, cam_specs, cap, cam_readers, ep, vw_writers, sink, frames,
                   success, parquet, episodes_jsonl, episodes_stats_jsonl, error,
                   tick_reads, tick0, all_ok>>

\* RecordRow with the row appended after "frame_count += 1"
RecordRowOneBased ==
    /\ pc = "record"
    /\ rows' = Append(rows, [timestamp |-> now - start_t, frame |-> frame_count + 1])
    /\ frame_count' = frame_count + 1
    /\ IF frame_count' >= args.min_frames
          THEN pc' = "release_vw" /\ now' = now
          ELSE pc' = "while" /\ now' = SleepUntil
    /\ ci' = 1
    /\ UNCHANGED <<invocation, stamps>>
    /\ UNCHANGED <<args, cam_specs, cap, cam_readers, ep, vw_writers, sink, frames,
                   success, parquet, episodes_jsonl, episodes_stats_jsonl, error,
                   tick_reads, tick0, all_ok>>

\* RecordRow with "timestamp = time.time() - loop_start"
RecordRowTickRelative ==
    /\ pc = "record"
    /\ rows' = Append(rows, [timestamp |-> now - loop_start, frame |-> frame_count])
    /\ frame_count' = frame_count + 1
    /\ IF frame_count' >= args.min_frames
          THEN pc' = "release_vw" /\ now' = now
          ELSE pc' = "while" /\ now' = SleepUntil
    /\ ci' = 1
    /\ UNCHANGED <<invocation, stamps>>
    /\ UNCHANGED <<args, cam_specs, cap, cam_readers, ep, vw_writers, sink, frames,
                   success, parquet, episodes_jsonl, episodes_stats_jsonl, error,
                   tick_reads, tick0, all_ok>>

\* timestamp = time.time() - start_t;
\* rows.append({timestamp, frame: frame_count}); frame_count += 1; then the
\* min_frames test (break) or the pacing sleep and the next loop test
RecordRow ==
    /\ pc = "record"
    /\ rows' = Append(rows, [timestamp |-> now - start_t, frame |-> frame_count])
    /\ frame_count' = frame_count + 1
    /\ IF frame_count' >= args.min_frames
          THEN pc' = "release_vw" /\ now' = now
          ELSE pc' = "while" /\ now' = SleepUntil
    /\ ci' = 1
    /\ UNCHANGED <<invocation, stamps>>
    /\ UNCHANGED <<args, cam_specs, cap, cam_readers, ep, vw_writers, sink, frames,
                   success, parquet, episodes_jsonl, episodes_stats_jsonl, error,
                   tick_reads, tick0, all_ok>>

\* --------------------------------------------------------- finalization
\* "for vw in vw_writers.values(): vw.release()" on a writer
ReleaseWriter ==
    /\ pc = "release_vw"
    /\ vw_writers[ci] # "None"
    /\ sink' = [sink EXCEPT ![ep][ci].st = "released"]
    /\ IF ci = cam_specs
          THEN pc' = "write_table" /\ ci' = 1
          ELSE pc' = "release_vw" /\ ci' = ci + 1
    /\ UNCHANGED <<invocation, now, stamps>>
    /\ UNCHANGED <<args, cam_specs, cap, cam_readers, ep, rows, vw_writers, frames,
                   success, frame_count, parquet, episodes_jsonl,
                   episodes_stats_jsonl, error, tick_reads, tick0, all_ok>>

\* vw.release() on an entry that is still None: AttributeError
ReleaseNone ==
    /\ pc = "release_vw"
    /\ vw_writers[ci] = "None"
    /\ Raise("AttributeError")
    /\ UNCHANGED <<invocation, now, stamps>>
    /\ UNCHANGED <<args, cam_specs, cap, cam_readers, ep, rows, vw_writers, sink,
                   frames, success, frame_count, parquet, episodes_jsonl,
                   episodes_stats_jsonl, tick_reads, tick0, all_ok>>

\* pq.write_table(table, data_dir / f"{ep_name}.parquet") returns
WriteTableOk ==
    /\ pc = "write_table"
    /\ parquet' = [e \in (DOMAIN parquet) \cup {ep} |->
                      IF e = ep THEN rows ELSE parquet[e]]
    /\ pc' = "append_episode"
    /\ UNCHANGED <<invocation, now, stamps>>
    /\ UNCHANGED <<args, cam_specs, ci, cap, cam_readers, ep, rows, vw_writers, sink,
                   frames, success, frame_count, episodes_jsonl,
                   episodes_stats_jsonl, error, tick_reads, tick0, all_ok>>

\* building or writing the table raises
WriteTableRaise ==
    /\ pc = "write_table"
    /\ Raise("TableWriteError")
    /\ UNCHANGED <<invocation, now, stamps>>
    /\ UNCHANGED <<args, cam_specs, cap, cam_readers, ep, rows, vw_writers, sink,
                   frames, success, frame_count, parquet, episodes_jsonl,
                   episodes_stats_jsonl, tick_reads, tick0, all_ok>>

\* AppendEpisodeOk with "episode_index": ep + 1
AppendEpisodeOneBased ==
    /\ pc = "append_episode"
    /\ episodes_jsonl' = append_jsonl(episodes_jsonl,
                                      [episode_index |-> ep + 1,
                                       episode_length |-> frame_count])
    /\ pc' = "append_stats"
    /\ UNCHANGED <<invocation, now, stamps>>
    /\ UNCHANGED <<args, cam_specs, ci, cap, cam_readers, ep, rows, vw_writers, sink,
                   frames, success, frame_count, parquet, episodes_stats_jsonl,
                   error, tick_reads, tick0, all_ok>>

\* _append_jsonl(meta_dir / "episodes.jsonl", {...}) returns
AppendEpisodeOk ==
    /\ pc = "append_episode"
    /\ episodes_jsonl' = append_jsonl(episodes_jsonl,
                                      [episode_index |-> ep,
                                       episode_length |-> frame_count])
    /\ pc' = "append_stats"
    /\ UNCHANGED <<invocation, now, stamps>>
    /\ UNCHANGED <<args, cam_specs, ci, cap, cam_readers, ep, rows, vw_writers, sink,
                   frames, success, frame_count, parquet, episodes_stats_jsonl,
                   error, tick_reads, tick0, all_ok>>

\* _append_jsonl(meta_dir / "episodes_stats.jsonl", {...}) returns; the
\* episode is complete and the for loop advances
AppendStatsOk ==
    /\ pc = "append_stats"
    /\ episodes_stats_jsonl' = append_jsonl(episodes_stats_jsonl,
                                            [episode_index |-> ep,
                                             length |-> frame_count])
    /\ ep' = ep + 1
    /\ pc' = "for_ep"
    /\ UNCHANGED <<invocation, now, stamps>>
    /\ UNCHANGED <<args, cam_specs, ci, cap, cam_readers, rows, vw_writers, sink,
                   frames, success, frame_count, parquet, episodes_jsonl, error,
                   tick_reads, tick0, all_ok>>

\* _append_jsonl raises (either log)
AppendRaise ==
    /\ pc \in {"append_episode", "append_stats"}
    /\ Raise("LogAppendError")
    /\ UNCHANGED <<invocation, now, stamps>>
    /\ UNCHANGED <<args, cam_specs, cap, cam_readers, ep, rows, vw_writers, sink,
                   frames, success, frame_count, parquet, episodes_jsonl,
                   episodes_stats_jsonl, tick_reads, tick0, all_ok>>

\* ------------------------------------------------------- finally block
\* "for r in cam_readers.values(): r.release()", then the function returns
\* or the pending exception propagates
ReleaseCamera ==
    /\ pc = "finally"
    /\ cap' = [cap EXCEPT ![ci] = "released"]
    /\ IF ci = cam_readers
          THEN pc' = (IF error = "none" THEN "done" ELSE "failed") /\ ci' = 1
          ELSE pc' = "finally" /\ ci' = ci + 1
    /\ UNCHANGED <<invocation, now, stamps>>
    /\ UNCHANGED <<args, cam_specs, cam_readers, ep, rows, vw_writers, sink, frames,
                   success, frame_count, parquet, episodes_jsonl,
                   episodes_stats_jsonl, error, tick_reads, tick0, all_ok>>

Next ==
    \/ Setup
    \/ OpenOk
    \/ OpenFail
    \/ StartEpisode
    \/ EpisodesDone
    \/ TickStart
    \/ LoopExit
    \/ ReadOk
    \/ ReadFail
    \/ ReadRaise
    \/ Continue
    \/ Proceed
    \/ InitWriterOpened
    \/ InitWriterUnopened
    \/ InitWriterRaise
    \/ WriteOk
    \/ WriteRaise
    \/ RecordRow
    \/ ReleaseWriter
    \/ ReleaseNone
    \/ WriteTableOk
    \/ WriteTableRaise
    \/ AppendEpisodeOk
    \/ AppendStatsOk
    \/ AppendRaise
    \/ ReleaseCamera

Spec == Init /\ [][Next]_vars

\* invocations repeated on one output directory
NextRerun == Next \/ Restart

RerunSpec == InitRerun /\ [][NextRerun]_vars

\* one invocation with the clock running
NextTimed == Next \/ Advance

TimedSpec == InitTimed /\ [][NextTimed]_vars

\* The program runs on: a step that is possible is eventually taken
\* (single-threaded sequential execution).
FairSpec == Init /\ [][Next]_vars /\ WF_vars(Next)

\* ------------------------------------------------------------ properties
\* positions inside the tick loop of an episode
TickPcs == {"while", "read", "if_success", "init_vw", "write", "record"}

\* positions of the finalization of an episode
FinalizePcs == {"release_vw", "write_table", "append_episode", "append_stats"}

\* records of episode e in the two episode logs
EpisodeRecords(e) == {i \in DOMAIN episodes_jsonl : episodes_jsonl[i].episode_index = e}

StatsRecords(e) ==
    {i \in DOMAIN episodes_stats_jsonl : episodes_stats_jsonl[i].episode_index = e}

\* C1: an episode always finalizes, whatever the pattern of read failures:
\* whenever the program is in the tick loop it eventually leaves it.
C1_EpisodeFinalizes == (pc \in TickPcs) ~> (pc \notin TickPcs)

\* C2: when the tick loop ends with frame_count = 0, finalization completes
\* without an error: releasing the (never created) writers does not raise.
C2_EmptyEpisodeFinalizes == ~(frame_count = 0 /\ error = "AttributeError")

\* C3: ticks are all-or-nothing: in a tick in which a read reported failure,
\* no frame has been written to any writer, no row has been appended and
\* frame_count is what it was when the tick started.
C3_TickAllOrNothing ==
    ~success => /\ Writes = tick0.writes
                /\ Len(rows) = tick0.rows
                /\ frame_count = tick0.frame_count

\* C3 witness: a discarded tick of a two-camera episode that has recorded
\* frames before, in which camera 1 delivered a frame and camera 2 failed.
C3_Witness ==
    /\ ~success
    /\ pc = "while"
    /\ cam_specs = 2
    /\ frames = 1
    /\ frame_count >= 1

C5_Original ==
    (pc \in FinalizePcs /\ all_ok /\ args.duration_n >= 0)
        => frame_count = Min(args.min_frames, max_frames)

\* C5 amended: if every tick of an episode succeeds, the episode ends with
\* frame_count = min(max(min_frames, 1), ceil(duration*fps)).
C5_AllOkFrameCount ==
    (pc \in FinalizePcs /\ all_ok /\ args.duration_n >= 0)
        => frame_count = Min(IF args.min_frames >= 1 THEN args.min_frames ELSE 1,
                               max_frames)

\* C5 witness: an episode without failed ticks that ended with one frame
\* although min_frames is not positive.
C5_Witness ==
    /\ pc \in FinalizePcs
    /\ all_ok
    /\ args.duration_n >= 0
    /\ args.min_frames <= 0
    /\ frame_count = 1

\* C6: if open() fails for a camera, every camera opened before it has been
\* released when the run aborts.
C6_OpenFailureReleasesOpened ==
    pc = "aborted" => \A c \in 1..cam_readers : cap[c] = "released"

\* C7: once all cameras are opened, every end of the run (normal, or by an
\* error raised inside an episode) has release() called on every camera.
C7_CamerasReleasedAtEnd ==
    pc \in {"done", "failed"} => \A c \in Cams : cap[c] = "released"

\* C7 witness: a two-camera run that ended by an error of a frame write,
\* with both cameras released.
C7_Witness ==
    /\ pc = "failed"
    /\ error = "SinkWriteError"
    /\ cam_specs = 2
    /\ \A c \in Cams : cap[c] = "released"

\* C8: no open video writer outlives its episode: once episode e is over
\* (the next episode has started, or the run has ended normally or by an
\* error), no writer created for e is still open.
C8_NoWriterOutlivesEpisode ==
    \A e \in EpisodeIds : \A c \in AllCams :
        (pc \in {"done", "failed"} \/ ep > e)
            => ~(sink[e][c].st = "open" /\ sink[e][c].ok)

\* the persistence of episode e failed: one of its writers could not be
\* opened, or a writer creation, a frame write or the table write raised
PersistFailed(e) ==
    \/ \E c \in Cams : sink[e][c].st # "absent" /\ ~sink[e][c].ok
    \/ /\ ep = e
       /\ error \in {"SinkCreateError", "SinkWriteError", "TableWriteError"}

\* C9: an episode whose persistence failed has no record in episodes.jsonl
\* and none in episodes_stats.jsonl.
C9_FailedEpisodeNotLogged ==
    \A e \in EpisodeIds :
        PersistFailed(e) => EpisodeRecords(e) = {} /\ StatsRecords(e) = {}

\* C10: in each tick read() is called exactly once on every configured
\* camera, in the camera order, also in ticks in which a read fails.
C10_EveryCameraReadEachTick ==
    pc = "if_success" =>
        /\ Len(tick_reads) = cam_specs
        /\ \A i \in 1..cam_specs : tick_reads[i] = i

\* a is an initial segment of b
IsPrefix(a, b) == Len(a) <= Len(b) /\ \A i \in 1..Len(a) : a[i] = b[i]

\* C11: the three logs are append-only across invocations on one output
\* directory: every step keeps every line a log holds, unchanged and in its
\* position, so new records come after all earlier lines.
C11_LogsAppendOnly ==
    [][/\ IsPrefix(tasks_jsonl, tasks_jsonl')
       /\ IsPrefix(episodes_jsonl, episodes_jsonl')
       /\ IsPrefix(episodes_stats_jsonl, episodes_stats_jsonl')]_vars

\* C11 witness: a second invocation has appended its episode 0 after the
\* record of the first invocation's episode 0.
C11_Witness ==
    /\ run = 2
    /\ pc = "done"
    /\ Len(tasks_jsonl) = 1
    /\ Len(episodes_jsonl) >= 2
    /\ episodes_jsonl[1].episode_index = 0
    /\ episodes_jsonl[Len(episodes_jsonl)].episode_index = 0
    /\ Len(episodes_stats_jsonl) = Len(episodes_jsonl)

\* C12: an invocation with N episodes that completes leaves N records with
\* episode_index 0..N-1 in that order in episodes.jsonl, and one stats
\* record per episode with the same index and length, appended after the
\* episode record and before the next episode starts.
C12_EpisodeRecordsInOrder ==
    /\ \A i \in DOMAIN episodes_jsonl : episodes_jsonl[i].episode_index = i - 1
    /\ \A i \in DOMAIN episodes_stats_jsonl :
          /\ i \in DOMAIN episodes_jsonl
          /\ episodes_stats_jsonl[i].episode_index = episodes_jsonl[i].episode_index
          /\ episodes_stats_jsonl[i].length = episodes_jsonl[i].episode_length
    /\ Len(episodes_jsonl) <= Len(episodes_stats_jsonl) + 1
    /\ pc \in TickPcs \cup {"for_ep"} =>
          Len(episodes_jsonl) = ep /\ Len(episodes_stats_jsonl) = ep
    /\ pc = "done" =>
          /\ Len(episodes_jsonl) = args.episodes
          /\ Len(episodes_stats_jsonl) = args.episodes

\* C12 witness: a completed invocation of two episodes.
C12_Witness ==
    /\ pc = "done"
    /\ args.episodes = 2
    /\ Len(episodes_stats_jsonl) = 2
    /\ episodes_jsonl[2].episode_length >= 1

\* C13: tasks.jsonl holds a line for the task description of every
\* invocation: task index 0, which the episode records of an invocation
\* name, is the description given to that invocation.
C13_TaskZeroIsThisTask ==
    pc # "setup" =>
        /\ \E i \in DOMAIN tasks_jsonl : tasks_jsonl[i].task = args.task
        /\ \A i \in DOMAIN tasks_jsonl :
              tasks_jsonl[i].task_index = 0 => tasks_jsonl[i].task = args.task

\* C14 as stated: 0 <= frame_count <= ceil(duration*fps) in every state of
\* every episode, for every accepted duration.
C14_Original ==
    pc \in TickPcs \cup FinalizePcs =>
        0 <= frame_count /\ frame_count <= max_frames

\* C14 amended: 0 <= frame_count <= max(ceil(duration*fps), 0).
C14_FrameCountBounded ==
    pc \in TickPcs \cup FinalizePcs =>
        /\ 0 <= frame_count
        /\ frame_count <= (IF max_frames >= 0 THEN max_frames ELSE 0)

\* C14 witness: an episode with a discarded tick that has reached its bound
\* of two frames.
C14_Witness ==
    /\ pc \in FinalizePcs
    /\ ~all_ok
    /\ max_frames = 2
    /\ frame_count = max_frames

\* C15: in the row buffer (and in the written tables) the frame value of
\* the row at 0-based position i is i.
C15_FrameIndexIsPosition ==
    /\ \A i \in DOMAIN rows : rows[i].frame = i - 1
    /\ \A e \in DOMAIN parquet :
          \A i \in DOMAIN parquet[e] : parquet[e][i].frame = i - 1

\* C15 witness: two rows with a discarded tick in the episode.
C15_Witness ==
    /\ Len(rows) = 2
    /\ ~all_ok
    /\ pc = "release_vw"

\* C16 as stated: the timestamps of consecutive rows are strictly
\* increasing, given only a clock that never goes backwards.
C16_Original ==
    \A i \in 1..(Len(rows) - 1) : rows[i].timestamp < rows[i + 1].timestamp

\* C16 amended: the timestamps of consecutive rows never decrease.
C16_TimestampsNonDecreasing ==
    \A i \in 1..(Len(rows) - 1) : rows[i].timestamp <= rows[i + 1].timestamp

\* C16 witness: two consecutive rows without a pacing sleep between them (the
\* first tick overran 1/fps) that carry the same timestamp.
C16_Witness ==
    /\ Len(rows) = 2
    /\ rows[1].timestamp = rows[2].timestamp
    /\ rows[1].timestamp * args.fps >= ClockHz

\* C17 amended: an episode is AWAITING_FIRST_FRAME (no writer, no frame),
\* then RECORDING (a writer per camera), then FINALIZED, or goes from
\* AWAITING_FIRST_FRAME to FINALIZED when its loop ends without a complete
\* tick.  The writers are created in the first complete tick only, before
\* any frame is written, never in a discarded tick and never again; every
\* write goes to a writer created in the same episode.
C17_SinkLifecycle ==
    /\ pc = "init_vw" =>
          /\ success
          /\ frame_count = 0
          /\ rows = <<>>
          /\ \A c \in Cams : sink[ep][c].n = 0
          /\ \A c \in ci..cam_specs :
                vw_writers[c] = "None" /\ sink[ep][c].st = "absent"
    /\ pc \in {"write", "record"} =>
          /\ success
          /\ \A c \in Cams : vw_writers[c] = "VideoWriter" /\ sink[ep][c].st = "open"
    /\ pc \in {"while", "read", "if_success"} \cup FinalizePcs =>
          IF frame_count = 0
             THEN \A c \in Cams : vw_writers[c] = "None" /\ sink[ep][c].st = "absent"
             ELSE \A c \in Cams : vw_writers[c] = "VideoWriter"

\* C17 as stated: in addition, every episode passes through RECORDING: an
\* episode that is being finalized has had its writers created.
C17_Original ==
    /\ C17_SinkLifecycle
    /\ pc \in FinalizePcs => \A c \in Cams : vw_writers[c] = "VideoWriter"

\* C17 witness: a later complete tick of a two-camera episode, after a
\* discarded tick, writes to the writers of the first complete tick.
C17_Witness ==
    /\ pc = "write"
    /\ cam_specs = 2
    /\ frame_count = 1
    /\ ~all_ok
    /\ ep = 1

\* C18: finalization order: every writer of the episode is released before
\* its table is written, the table before the episodes.jsonl record, that
\* record before the episodes_stats.jsonl record; after the first release
\* the episode reads no camera and writes no frame.
C18_FinalizationOrder ==
    \A e \in EpisodeIds :
        /\ e \in DOMAIN parquet => \A c \in Cams : sink[e][c].st = "released"
        /\ EpisodeRecords(e) # {} => e \in DOMAIN parquet
        /\ StatsRecords(e) # {} => EpisodeRecords(e) # {}
        /\ (\E c \in Cams : sink[e][c].st = "released") => (e < ep \/ pc \notin TickPcs)

\* C18 witness: a finalized two-camera episode of two frames.
C18_Witness ==
    /\ pc = "for_ep"
    /\ ep = 1
    /\ cam_specs = 2
    /\ \E i \in StatsRecords(0) : episodes_stats_jsonl[i].length = 2
    /\ \A c \in Cams : sink[0][c].st = "released"

\* C19: between the starts of two consecutive ticks of an episode at least
\* 1/fps of time elapses.
C19_TickRateBounded ==
    (prev_start >= 0 /\ loop_start >= 0)
        => (loop_start - prev_start) * args.fps >= ClockHz

\* C20: after completed invocations on one output directory every record
\* of episodes.jsonl has its own episode table: there are as many records
\* as table files.
C20_RecordsMatchTables ==
    (pc = "done" /\ completed) => Len(episodes_jsonl) = Cardinality(DOMAIN parquet)
====
